---------------------------- MODULE Spec2Model ----------------------------
(***************************************************************************)
(* A model of openf.h: the whole-file I/O helpers and the 24-bit BMP       *)
(* codec (openf_load_bmp, openf_save_bmp, openf_free_image).               *)
(*                                                                         *)
(* Files are byte sequences.  C's `unsigned int` is four little-endian     *)
(* bytes and `size_t` eight, exactly the bytes fread/fwrite move between   *)
(* the packed header structs and the file, so that 32-bit wrap-around is   *)
(* part of the model.                                                      *)
(***************************************************************************)
EXTENDS Integers, Sequences, FiniteSets, TLC

VARIABLES
    disk,        \* the file system: path -> byte sequence, or NoFile
    image,       \* the caller's OpenF_Image handed to openf_save_bmp
    out_image,   \* the caller's OpenF_Image* that openf_load_bmp fills
    out_file,    \* the caller's OpenF_File that openf_read fills
    out_size,    \* the caller's size_t that openf_get_size fills
    out_dup,     \* the caller's char* that openf_strdup fills
    caller_heap, \* the buffers openf_load_bmp handed over, and their frees
    res,         \* the last call: operation, arguments, return code, resources
    pre,         \* the file system and the outputs as they were before the last call
    saved        \* the image whose openf_save_bmp returned OPENF_OK and wrote
                 \* the file now at BmpPath, or NullImage

vars ==
    <<disk, image, out_image, out_file, out_size, out_dup, caller_heap, res, pre, saved>>

-----------------------------------------------------------------------------
(* Bounds of the model *)

\* largest width of an image or of a hand-made BMP
MaxWidth == 5
\* largest height of an image, and largest |biHeight| of a hand-made BMP
MaxHeight == 2
\* pixel patterns 0..MaxSeed fill the caller's images
MaxSeed == 0

-----------------------------------------------------------------------------
(* Fixed-width unsigned arithmetic on little-endian byte sequences *)

\* the k little-endian bytes of n (n < 2^31)
RECURSIVE ToLimbs(_, _)
ToLimbs(n, k) ==
    IF k = 0 THEN <<>> ELSE <<n % 256>> \o ToLimbs(n \div 256, k - 1)

U32(n) == ToLimbs(n, 4)

\* zero-extension (unsigned int -> size_t) and truncation ((unsigned int) cast)
RECURSIVE Widen(_, _)
Widen(a, k) == IF Len(a) >= k THEN SubSeq(a, 1, k) ELSE Widen(a \o <<0>>, k)

\* whether the value is below 2^24, small enough to index the model's sequences
IsSmall(a) == \A i \in 4..Len(a) : a[i] = 0

\* whether the value is below 2^15, so that a product of two fits TLC's integers
IsTiny(a) == a[2] < 128 /\ \A i \in 3..Len(a) : a[i] = 0

\* the natural number of a small value
NatOf(a) == a[1] + 256 * a[2] + 65536 * a[3]

RECURSIVE AddC(_, _, _)
AddC(a, b, c) ==
    IF a = <<>> THEN <<>>
    ELSE LET s == Head(a) + Head(b) + c
         IN  <<s % 256>> \o AddC(Tail(a), Tail(b), s \div 256)

\* a + b modulo 256^Len(a)
AddL(a, b) ==
    IF IsSmall(a) /\ IsSmall(b) THEN ToLimbs(NatOf(a) + NatOf(b), Len(a))
    ELSE AddC(a, b, 0)

RECURSIVE SumProd(_, _, _, _)
SumProd(a, b, i, j) ==
    IF j > i THEN 0 ELSE a[j] * b[i + 1 - j] + SumProd(a, b, i, j + 1)

RECURSIVE MulC(_, _, _, _)
MulC(a, b, i, c) ==
    IF i > Len(a) THEN <<>>
    ELSE LET s == c + SumProd(a, b, i, 1)
         IN  <<s % 256>> \o MulC(a, b, i + 1, s \div 256)

\* a * b modulo 256^Len(a)
MulL(a, b) ==
    IF IsTiny(a) /\ IsTiny(b) THEN ToLimbs(NatOf(a) * NatOf(b), Len(a))
    ELSE MulC(a, b, 1, 0)

\* bitwise complement, and two's-complement negation (-x on int)
NotL(a) == [i \in 1..Len(a) |-> 255 - a[i]]
NegL(a) == AddC(NotL(a), ToLimbs(1, Len(a)), 0)

\* a - b modulo 256^Len(a)
SubL(a, b) ==
    IF IsSmall(a) /\ IsSmall(b) /\ NatOf(a) >= NatOf(b)
      THEN ToLimbs(NatOf(a) - NatOf(b), Len(a))
    ELSE AddC(a, NegL(b), 0)

\* (a / 4) * 4 on unsigned values: the two low bits cleared
Div4Mul4(a) == [a EXCEPT ![1] = a[1] - (a[1] % 4)]

IsZeroL(a) == \A i \in 1..Len(a) : a[i] = 0

\* the sign bit of a two's-complement value
IsNegL(a) == a[Len(a)] >= 128

RECURSIVE LessFrom(_, _, _)
LessFrom(a, b, i) ==
    IF i = 0 THEN FALSE
    ELSE IF a[i] # b[i] THEN a[i] < b[i]
    ELSE LessFrom(a, b, i - 1)

\* unsigned a < b (equal lengths)
LessL(a, b) ==
    IF IsSmall(a) /\ IsSmall(b) THEN NatOf(a) < NatOf(b)
    ELSE LessFrom(a, b, Len(a))

-----------------------------------------------------------------------------
(* Values shared by the operations *)

\* what the file system holds for a path that names no file (no byte sequence)
NoFile == <<-1>>
\* a size that was not computed
NoSize == <<>>
Null == "NULL"
\* a NULL OpenF_Image*
NullImage == [null |-> TRUE]
\* whether an OpenF_Image has a pixel buffer (pixels != NULL)
HasPixels(img) == "pixels" \in DOMAIN img
\* the content of malloc'ed memory that was never written
Uninit == -1
\* the outcome of undefined behaviour that ends the process
Crash == "CRASH"

OPENF_OK == "OPENF_OK"
OPENF_ERR_NULL_ARG == "OPENF_ERR_NULL_ARG"
OPENF_ERR_OPEN_FAILED == "OPENF_ERR_OPEN_FAILED"
OPENF_ERR_SEEK_FAILED == "OPENF_ERR_SEEK_FAILED"
OPENF_ERR_READ_FAILED == "OPENF_ERR_READ_FAILED"
OPENF_ERR_WRITE_FAILED == "OPENF_ERR_WRITE_FAILED"
OPENF_ERR_MEM_ALLOC == "OPENF_ERR_MEM_ALLOC"
OPENF_ERR_INVALID_FORMAT == "OPENF_ERR_INVALID_FORMAT"
OPENF_ERR_UNSUPPORTED == "OPENF_ERR_UNSUPPORTED"
OPENF_ERR_CLOSE_FAILED == "OPENF_ERR_CLOSE_FAILED"
OPENF_ERR_FILE_NOT_FOUND == "OPENF_ERR_FILE_NOT_FOUND"

\* what a call did with its resources: fopen/fclose calls on the stream it
\* opened, and malloc's that succeeded / free's per buffer
Rsrc(fo, fc, mp, mr, mi, fp, fr, fi) ==
    [fopen |-> fo, fclose |-> fc,
     malloc |-> [pixels |-> mp, row_data |-> mr, img |-> mi],
     free |-> [pixels |-> fp, row_data |-> fr, img |-> fi]]

-----------------------------------------------------------------------------
(* The packed BMP headers *)

\* sizeof(OpenF_BMPFileHeader) and sizeof(OpenF_BMPInfoHeader) under pack(1)
FileHeaderSize == 14
InfoHeaderSize == 40

\* the n bytes of a struct field at byte offset off
Field(b, off, n) == SubSeq(b, off + 1, off + n)

\* 0x4D42 as the two bytes in memory: 'B', 'M'
BM == <<66, 77>>

bfType(b) == Field(b, 0, 2)
bfOffBits(b) == Field(b, 10, 4)
biWidth(b) == Field(b, FileHeaderSize + 4, 4)
biHeight(b) == Field(b, FileHeaderSize + 8, 4)
biBitCount(b) == Field(b, FileHeaderSize + 14, 2)
biCompression(b) == Field(b, FileHeaderSize + 16, 4)

-----------------------------------------------------------------------------
(* openf_load_bmp *)

LoadFaults ==
    {"none", "fopen", "read_file_header", "read_info_header", "malloc_pixels",
     "fseek", "malloc_row_data", "read_row", "malloc_img"}

\* the checks of the two headers, in the order of the code: the error of the
\* first one that fails, or OPENF_OK
LoadValidateShortIsInvalid(file, fault) ==
    IF Len(file) < FileHeaderSize \/ fault = "read_file_header"
      THEN OPENF_ERR_INVALID_FORMAT
    ELSE IF bfType(file) # BM THEN OPENF_ERR_INVALID_FORMAT
    ELSE IF Len(file) < FileHeaderSize + InfoHeaderSize \/ fault = "read_info_header"
      THEN OPENF_ERR_READ_FAILED
    ELSE IF biBitCount(file) # ToLimbs(24, 2) \/ ~IsZeroL(biCompression(file))
      THEN OPENF_ERR_UNSUPPORTED
    ELSE IF IsNegL(biWidth(file)) \/ IsZeroL(biWidth(file)) \/ IsZeroL(biHeight(file))
      THEN OPENF_ERR_INVALID_FORMAT
    ELSE OPENF_OK

LoadValidateDimensionsFirst(file, fault) ==
    IF Len(file) < FileHeaderSize \/ fault = "read_file_header"
      THEN OPENF_ERR_READ_FAILED
    ELSE IF bfType(file) # BM THEN OPENF_ERR_INVALID_FORMAT
    ELSE IF Len(file) < FileHeaderSize + InfoHeaderSize \/ fault = "read_info_header"
      THEN OPENF_ERR_READ_FAILED
    ELSE IF IsNegL(biWidth(file)) \/ IsZeroL(biWidth(file)) \/ IsZeroL(biHeight(file))
      THEN OPENF_ERR_INVALID_FORMAT
    ELSE IF biBitCount(file) # ToLimbs(24, 2) \/ ~IsZeroL(biCompression(file))
      THEN OPENF_ERR_UNSUPPORTED
    ELSE OPENF_OK

LoadValidate(file, fault) ==
    IF Len(file) < FileHeaderSize \/ fault = "read_file_header"
      THEN OPENF_ERR_READ_FAILED
    ELSE IF bfType(file) # BM THEN OPENF_ERR_INVALID_FORMAT
    ELSE IF Len(file) < FileHeaderSize + InfoHeaderSize \/ fault = "read_info_header"
      THEN OPENF_ERR_READ_FAILED
    ELSE IF biBitCount(file) # ToLimbs(24, 2) \/ ~IsZeroL(biCompression(file))
      THEN OPENF_ERR_UNSUPPORTED
    ELSE IF IsNegL(biWidth(file)) \/ IsZeroL(biWidth(file)) \/ IsZeroL(biHeight(file))
      THEN OPENF_ERR_INVALID_FORMAT
    ELSE OPENF_OK

\* unsigned int height = biHeight < 0 ? -biHeight : biHeight
LoadHeight(h) == IF IsNegL(h) THEN NegL(h) ELSE h

\* size_t row_size = ((width * 3 + 3) / 4) * 4, computed in unsigned int
LoadRowSize(width) == Div4Mul4(AddL(MulL(width, U32(3)), U32(3)))

\* the argument of malloc(width * height * 3), computed in unsigned int
LoadPixelsSize(width, height) == MulL(MulL(width, height), U32(3))

\* where fseek(f, bfOffBits, SEEK_SET) leaves the stream: the number of bytes
\* of the file from there on
LoadSeekFixed54(file) ==
    SubSeq(file, FileHeaderSize + InfoHeaderSize + 1, Len(file))

LoadSeek(file) ==
    IF IsSmall(bfOffBits(file)) /\ NatOf(bfOffBits(file)) <= Len(file)
      THEN SubSeq(file, NatOf(bfOffBits(file)) + 1, Len(file))
      ELSE <<>>

\* unsigned int target_y = top_down ? y : (height - 1 - y)
LoadTargetYNoFlip(top_down, height, y) == y

LoadTargetY(top_down, height, y) ==
    IF top_down THEN y ELSE SubL(SubL(height, U32(1)), y)

\* unsigned int dst_idx = (target_y * width + x) * 3
LoadDstIdx(target_y, width, x) == MulL(AddL(MulL(target_y, width), x), U32(3))

\* unsigned int src_idx = x * 3
LoadSrcIdx(x) == MulL(x, U32(3))

\* the channel of row_data copied to pixels[dst_idx + k]
LoadChannel(k) == 2 - k

\* the three assignments of the inner loop body for pixel x; st.pixels maps
\* the indices written so far to their bytes, st.oob records an access
\* outside either allocation
LoadPixel(st, row_data, pixels_size, target_y, width, x) ==
    LET dst == LoadDstIdx(target_y, width, x)
        src == LoadSrcIdx(x)
        d == [k \in 0..2 |-> AddL(dst, U32(k))]
        s == [k \in 0..2 |-> AddL(src, U32(LoadChannel(k)))]
        inside == \A k \in 0..2 :
                     /\ LessL(d[k], pixels_size)
                     /\ LessL(s[k], U32(Len(row_data)))
    IN  IF ~inside THEN [st EXCEPT !.oob = TRUE]
        ELSE [st EXCEPT !.pixels =
                 (d[0] :> row_data[NatOf(s[0]) + 1])
                 @@ (d[1] :> row_data[NatOf(s[1]) + 1])
                 @@ (d[2] :> row_data[NatOf(s[2]) + 1]) @@ @]

\* for (unsigned int x = 0; x < width; x++)
RECURSIVE LoadRowLoop(_, _, _, _, _, _)
LoadRowLoop(st, row_data, pixels_size, target_y, width, x) ==
    IF st.oob \/ ~LessL(x, width) THEN st
    ELSE LoadRowLoop(LoadPixel(st, row_data, pixels_size, target_y, width, x),
                     row_data, pixels_size, target_y, width, AddL(x, U32(1)))

\* for (unsigned int y = 0; y < height; y++): fread of one row, then the inner
\* loop.  rest is what the stream still holds.  The result says how the loop
\* ended: "done", "short_read" or "oob".
RECURSIVE LoadRows(_, _, _, _, _, _, _, _)
LoadRows(st, rest, row_size, pixels_size, top_down, width, height, y) ==
    IF ~LessL(y, height) THEN [end |-> "done", pixels |-> st.pixels]
    ELSE IF ~IsSmall(row_size) \/ Len(rest) < NatOf(row_size)
      THEN [end |-> "short_read", pixels |-> st.pixels]
    ELSE LET n == NatOf(row_size)
             st2 == LoadRowLoop(st, SubSeq(rest, 1, n), pixels_size,
                                LoadTargetY(top_down, height, y), width, U32(0))
         IN  IF st2.oob THEN [end |-> "oob", pixels |-> st2.pixels]
             ELSE LoadRows(st2, SubSeq(rest, n + 1, Len(rest)), row_size,
                           pixels_size, top_down, width, height, AddL(y, U32(1)))

\* the pixel buffer as a byte sequence
PixelSeq(pixels, pixels_size) ==
    [i \in 1..NatOf(pixels_size) |->
        IF U32(i - 1) \in DOMAIN pixels THEN pixels[U32(i - 1)] ELSE Uninit]


\* what a call returns: the code, the resources, whether *out was stored and
\* the value stored
Returned(ret, rsrc) ==
    [ret |-> ret, rsrc |-> rsrc, stored |-> FALSE, value |-> NullImage, oob |-> FALSE,
     pixels_size |-> NoSize, row_size |-> NoSize]

\* the exits of openf_load_bmp, each with the fclose and free calls on its path
LoadExitNullArg == Returned(OPENF_ERR_NULL_ARG, Rsrc(0, 0, 0, 0, 0, 0, 0, 0))
LoadExitNotFound == Returned(OPENF_ERR_FILE_NOT_FOUND, Rsrc(0, 0, 0, 0, 0, 0, 0, 0))
LoadExitHeader(err) == Returned(err, Rsrc(1, 1, 0, 0, 0, 0, 0, 0))
LoadExitNoPixels == Returned(OPENF_ERR_MEM_ALLOC, Rsrc(1, 1, 0, 0, 0, 0, 0, 0))
LoadExitSeekFailed == Returned(OPENF_ERR_SEEK_FAILED, Rsrc(1, 1, 1, 0, 0, 1, 0, 0))
LoadExitNoRowData == Returned(OPENF_ERR_MEM_ALLOC, Rsrc(1, 1, 1, 0, 0, 1, 0, 0))
LoadExitShortRowLeak == Returned(OPENF_ERR_READ_FAILED, Rsrc(1, 1, 1, 1, 0, 0, 1, 0))
LoadExitShortRow == Returned(OPENF_ERR_READ_FAILED, Rsrc(1, 1, 1, 1, 0, 1, 1, 0))
LoadExitNoImg == Returned(OPENF_ERR_MEM_ALLOC, Rsrc(1, 1, 1, 1, 0, 1, 1, 0))
LoadExitOk == Returned(OPENF_OK, Rsrc(1, 1, 1, 1, 1, 0, 1, 0))
\* an access outside an allocation: what follows is undefined
LoadExitUndefined == Returned(Crash, Rsrc(1, 0, 1, 1, 0, 0, 0, 0))

openf_load_bmp(path, has_out, fs, fault) ==
    IF path = Null \/ ~has_out THEN LoadExitNullArg
    ELSE IF fs[path] = NoFile \/ fault = "fopen" THEN LoadExitNotFound
    ELSE IF LoadValidate(fs[path], fault) # OPENF_OK
      THEN LoadExitHeader(LoadValidate(fs[path], fault))
    ELSE
      LET file == fs[path]
          width == biWidth(file)
          height == LoadHeight(biHeight(file))
          row_size == LoadRowSize(width)
          pixels_size == LoadPixelsSize(width, height)
          top_down == IsNegL(biHeight(file))
          sizes(r) == [r EXCEPT !.pixels_size = pixels_size, !.row_size = row_size]
      IN  IF fault = "malloc_pixels" THEN LoadExitNoPixels
          ELSE IF fault = "fseek" THEN sizes(LoadExitSeekFailed)
          ELSE IF fault = "malloc_row_data" THEN sizes(LoadExitNoRowData)
          ELSE IF fault = "read_row" THEN sizes(LoadExitShortRow)
          ELSE
            LET loop == LoadRows([pixels |-> <<>>, oob |-> FALSE], LoadSeek(file),
                                 row_size, pixels_size, top_down, width, height, U32(0))
            IN  IF loop.end = "short_read" THEN sizes(LoadExitShortRow)
                ELSE IF loop.end = "oob"
                  THEN [sizes(LoadExitUndefined) EXCEPT
                          !.oob = TRUE,
                          !.value = [width |-> width, height |-> height,
                                     pixels |-> <<>>, indeterminate |-> TRUE]]
                ELSE IF fault = "malloc_img" THEN sizes(LoadExitNoImg)
                ELSE [sizes(LoadExitOk) EXCEPT
                        !.stored = TRUE,
                        !.value = [width |-> width, height |-> height,
                                   pixels |-> PixelSeq(loop.pixels, pixels_size)]]

-----------------------------------------------------------------------------
(* openf_free_image *)

\* openf_free_image(&ptr), or openf_free_image(NULL) when ~has_arg: the
\* caller's pointer and the handed-over buffers afterwards
FreeOne(state) == IF state = "live" THEN "freed" ELSE "freed_twice"

openf_free_image(has_arg, ptr, heap) ==
    IF ~has_arg \/ ptr = NullImage THEN [ptr |-> ptr, heap |-> heap]
    ELSE [ptr |-> NullImage,
          heap |-> [pixels |-> IF HasPixels(ptr) THEN FreeOne(heap.pixels)
                               ELSE heap.pixels,
                    img |-> FreeOne(heap.img)]]

-----------------------------------------------------------------------------
(* openf_save_bmp *)

SaveFaults ==
    {"none", "fopen", "write_file_header", "write_info_header",
     "malloc_row_data", "write_row", "fclose"}

\* size_t row_size = ((width * 3 + 3) / 4) * 4, computed in unsigned int
SaveRowSizeUnpadded(width) == MulL(width, U32(3))

SaveRowSize(width) == Div4Mul4(AddL(MulL(width, U32(3)), U32(3)))

\* size_t pixel_data_size = row_size * height
SavePixelDataSize(width, height) ==
    MulL(Widen(SaveRowSize(width), 8), Widen(height, 8))

\* the 14 bytes of file_header as fwrite sends them
SaveFileHeader(width, height) ==
    BM
    \o Widen(AddL(ToLimbs(FileHeaderSize + InfoHeaderSize, 8),
                  SavePixelDataSize(width, height)), 4)
    \o <<0, 0>> \o <<0, 0>>
    \o U32(FileHeaderSize + InfoHeaderSize)

\* the 40 bytes of info_header as fwrite sends them
SaveInfoHeader(width, height) ==
    U32(InfoHeaderSize) \o width \o height
    \o ToLimbs(1, 2) \o ToLimbs(24, 2) \o U32(0)
    \o Widen(SavePixelDataSize(width, height), 4)
    \o U32(0) \o U32(0) \o U32(0) \o U32(0)

\* unsigned int src_y = height - 1 - y
SaveSrcY(height, y) == SubL(SubL(height, U32(1)), y)

\* size_t src_idx = (src_y * width + x) * 3, computed in unsigned int
SaveSrcIdx(src_y, width, x) == MulL(AddL(MulL(src_y, width), x), U32(3))

\* size_t dst_idx = x * 3, computed in unsigned int
SaveDstIdx(x) == MulL(x, U32(3))

\* the channel of image->pixels copied to row_data[dst_idx + k]
SaveChannel(k) == 2 - k

\* the three assignments of the inner loop body for pixel x; st.row is
\* row_data, st.oob records an access outside row_data or image->pixels
SavePixel(st, pixels, src_y, width, x) ==
    LET dst == Widen(SaveDstIdx(x), 8)
        src == Widen(SaveSrcIdx(src_y, width, x), 8)
        d == [k \in 0..2 |-> AddL(dst, ToLimbs(k, 8))]
        s == [k \in 0..2 |-> AddL(src, ToLimbs(SaveChannel(k), 8))]
        inside == \A k \in 0..2 :
                     /\ LessL(d[k], ToLimbs(Len(st.row), 8))
                     /\ LessL(s[k], ToLimbs(Len(pixels), 8))
    IN  IF ~inside THEN [st EXCEPT !.oob = TRUE]
        ELSE [st EXCEPT !.row =
                 [@ EXCEPT ![NatOf(d[0]) + 1] = pixels[NatOf(s[0]) + 1],
                           ![NatOf(d[1]) + 1] = pixels[NatOf(s[1]) + 1],
                           ![NatOf(d[2]) + 1] = pixels[NatOf(s[2]) + 1]]]

\* for (unsigned int x = 0; x < width; x++)
RECURSIVE SaveRowLoop(_, _, _, _, _)
SaveRowLoop(st, pixels, src_y, width, x) ==
    IF st.oob \/ ~LessL(x, width) THEN st
    ELSE SaveRowLoop(SavePixel(st, pixels, src_y, width, x),
                     pixels, src_y, width, AddL(x, U32(1)))

\* one pass of the outer loop: memset(row_data, 0, row_size), then the pixels
SaveRow(im, y) ==
    SaveRowLoop([row |-> [j \in 1..NatOf(SaveRowSize(im.width)) |-> 0],
                 oob |-> FALSE],
                im.pixels, SaveSrcY(im.height, y), im.width, U32(0))

\* for (unsigned int y = 0; y < height; y++): the bytes fwrite has sent when
\* the loop ends
RECURSIVE SaveRows(_, _, _)
SaveRows(im, y, sent) ==
    IF ~LessL(y, im.height) THEN [oob |-> FALSE, sent |-> sent]
    ELSE IF SaveRow(im, y).oob THEN [oob |-> TRUE, sent |-> sent]
    ELSE SaveRows(im, AddL(y, U32(1)), sent \o SaveRow(im, y).row)

\* what the call returns and the content it leaves in the file (NoFile: the
\* file was not opened, the file system is as before)
Saved(ret, rsrc, content) ==
    [Returned(ret, rsrc) EXCEPT !.value = content]

SaveExitNullArg == Saved(OPENF_ERR_NULL_ARG, Rsrc(0, 0, 0, 0, 0, 0, 0, 0), NoFile)
SaveExitOpenFailed == Saved(OPENF_ERR_OPEN_FAILED, Rsrc(0, 0, 0, 0, 0, 0, 0, 0), NoFile)
SaveExitHeaderFailed(sent) == Saved(OPENF_ERR_WRITE_FAILED, Rsrc(1, 1, 0, 0, 0, 0, 0, 0), sent)
SaveExitNoRowData(sent) == Saved(OPENF_ERR_MEM_ALLOC, Rsrc(1, 1, 0, 0, 0, 0, 0, 0), sent)
SaveExitRowFailed(sent) == Saved(OPENF_ERR_WRITE_FAILED, Rsrc(1, 1, 0, 1, 0, 0, 1, 0), sent)
SaveExitCloseFailed(sent) == Saved(OPENF_ERR_CLOSE_FAILED, Rsrc(1, 1, 0, 1, 0, 0, 1, 0), sent)
SaveExitOk(sent) == Saved(OPENF_OK, Rsrc(1, 1, 0, 1, 0, 0, 1, 0), sent)
SaveExitUndefined(sent) ==
    [Saved(Crash, Rsrc(1, 0, 0, 1, 0, 0, 0, 0), sent) EXCEPT !.oob = TRUE]

openf_save_bmp(path, img, fault) ==
    IF path = Null \/ img = NullImage THEN SaveExitNullArg
    ELSE IF ~HasPixels(img) THEN SaveExitNullArg
    ELSE IF fault = "fopen" THEN SaveExitOpenFailed
    ELSE IF fault = "write_file_header" THEN SaveExitHeaderFailed(<<>>)
    ELSE IF fault = "write_info_header"
      THEN SaveExitHeaderFailed(SaveFileHeader(img.width, img.height))
    ELSE
      LET headers == SaveFileHeader(img.width, img.height)
                     \o SaveInfoHeader(img.width, img.height)
          loop == SaveRows(img, U32(0), headers)
      IN  IF fault = "malloc_row_data" THEN SaveExitNoRowData(headers)
          ELSE IF fault = "write_row" /\ ~IsZeroL(img.height)
            THEN SaveExitRowFailed(headers)
          ELSE IF loop.oob THEN SaveExitUndefined(loop.sent)
          ELSE IF fault = "fclose" THEN SaveExitCloseFailed(loop.sent)
          ELSE SaveExitOk(loop.sent)

-----------------------------------------------------------------------------
(* openf_read, openf_get_size, openf_strdup *)

\* what a call with an output parameter returns: the code, whether *out was
\* stored and the value stored
Output(ret, stored, value) ==
    [ret |-> ret, rsrc |-> Rsrc(0, 0, 0, 0, 0, 0, 0, 0), stored |-> stored,
     value |-> value, oob |-> FALSE, pixels_size |-> NoSize, row_size |-> NoSize]

ReadFaults == {"none", "fopen", "fseek", "ftell", "malloc", "fread", "fclose"}

\* the OpenF_File of a content: the bytes and a terminating NUL, and the size
FileOf(content) == [data |-> content \o <<0>>, size |-> Len(content)]

openf_read(path, has_out, fs, fault) ==
    IF path = Null \/ ~has_out THEN Output(OPENF_ERR_NULL_ARG, FALSE, FileOf(<<>>))
    ELSE IF fs[path] = NoFile \/ fault = "fopen"
      THEN Output(OPENF_ERR_OPEN_FAILED, FALSE, FileOf(<<>>))
    ELSE IF fault = "fseek" THEN Output(OPENF_ERR_SEEK_FAILED, FALSE, FileOf(<<>>))
    ELSE IF fault = "ftell" THEN Output(OPENF_ERR_SEEK_FAILED, FALSE, FileOf(<<>>))
    ELSE IF fault = "malloc" THEN Output(OPENF_ERR_MEM_ALLOC, FALSE, FileOf(<<>>))
    ELSE IF fault = "fread" THEN Output(OPENF_ERR_READ_FAILED, FALSE, FileOf(<<>>))
    ELSE IF fault = "fclose" THEN Output(OPENF_ERR_CLOSE_FAILED, FALSE, FileOf(<<>>))
    ELSE Output(OPENF_OK, TRUE, FileOf(fs[path]))

SizeFaults == {"none", "fopen", "fseek", "ftell", "fclose"}

\* *out_size = (size_t)size comes before the fclose whose failure is returned
openf_get_size(path, has_out, fs, fault) ==
    IF path = Null \/ ~has_out THEN Output(OPENF_ERR_NULL_ARG, FALSE, 0)
    ELSE IF fs[path] = NoFile \/ fault = "fopen"
      THEN Output(OPENF_ERR_FILE_NOT_FOUND, FALSE, 0)
    ELSE IF fault = "fseek" THEN Output(OPENF_ERR_SEEK_FAILED, FALSE, 0)
    ELSE IF fault = "ftell" THEN Output(OPENF_ERR_SEEK_FAILED, FALSE, 0)
    ELSE IF fault = "fclose" THEN Output(OPENF_ERR_CLOSE_FAILED, TRUE, Len(fs[path]))
    ELSE Output(OPENF_OK, TRUE, Len(fs[path]))

DupFaults == {"none", "malloc"}

openf_strdup(src, has_out, fault) ==
    IF src = Null \/ ~has_out THEN Output(OPENF_ERR_NULL_ARG, FALSE, "")
    ELSE IF fault = "malloc" THEN Output(OPENF_ERR_MEM_ALLOC, FALSE, "")
    ELSE Output(OPENF_OK, TRUE, src)

-----------------------------------------------------------------------------
(* openf_merge_files *)

MergeFaults ==
    {"none", "fopen", "fread_1", "fread_2", "fwrite_1", "fwrite_2", "fclose"}

\* ferror(fin) is called after fclose(fin): the stream no longer exists and
\* the call is undefined; it can answer either way or end the process
FerrorAfterClose == {"clear", "set", "crash"}

\* const char* files[2] = {a, b}
MergeFiles(a, b) == <<a, b>>

\* the first n bytes of what fwrite has accepted: what the file holds when
\* only that much of the stream's buffer has reached it
Flushed(sent, n) == SubSeq(sent, 1, IF n < Len(sent) THEN n ELSE Len(sent))

\* what a call returns and the content it leaves in out (NoFile: out was not
\* opened, the file system is as before)
Merged(ret, content) == Output(ret, FALSE, content)

\* pass i of the for loop and what follows it.  fs is the file system once
\* fopen(out, "wb") has emptied out; sent is what fwrite has accepted so far;
\* an input that is out itself reads back what has been flushed of it
RECURSIVE MergeLoop(_, _, _, _, _, _, _, _)
MergeLoop(i, sent, files, out, fs, fault, flushed, ferr) ==
    IF i > 2
      THEN IF fault = "fclose" THEN Merged(OPENF_ERR_CLOSE_FAILED, sent)
           ELSE Merged(OPENF_OK, sent)
    ELSE IF fs[files[i]] = NoFile THEN Merged(OPENF_ERR_FILE_NOT_FOUND, sent)
    ELSE
      LET whole == IF files[i] = out THEN Flushed(sent, flushed) ELSE fs[files[i]]
          read == IF (fault = "fread_1" /\ i = 1) \/ (fault = "fread_2" /\ i = 2)
                    THEN <<>> ELSE whole
      IN  IF read # <<>> /\ ((fault = "fwrite_1" /\ i = 1) \/ (fault = "fwrite_2" /\ i = 2))
            THEN Merged(OPENF_ERR_WRITE_FAILED, sent)
          ELSE IF ferr[i] = "crash" THEN Merged(Crash, Flushed(sent \o read, flushed))
          ELSE IF ferr[i] = "set" THEN Merged(OPENF_ERR_READ_FAILED, sent \o read)
          ELSE MergeLoop(i + 1, sent \o read, files, out, fs, fault, flushed, ferr)

openf_merge_files(out, a, b, fs, fault, flushed, ferr) ==
    IF out = Null \/ a = Null \/ b = Null THEN Merged(OPENF_ERR_NULL_ARG, NoFile)
    ELSE IF fault = "fopen" THEN Merged(OPENF_ERR_OPEN_FAILED, NoFile)
    ELSE MergeLoop(1, <<>>, MergeFiles(a, b), out, [fs EXCEPT ![out] = <<>>],
                   fault, flushed, ferr)

-----------------------------------------------------------------------------
(* The inputs the specifications draw from *)

Paths == {"a", "b", "out"}
\* the path the codec runs use
BmpPath == "a"

\* an output variable the caller has not initialised, and one holding v
Unset == [unset |-> TRUE]
Holding(v) == [value |-> v]

\* the bytes of a signed 32-bit value
S32(v) == IF v >= 0 THEN U32(v) ELSE NegL(U32(-v))

\* n pixel bytes, all different, from a seed
Pattern(seed, n) == [i \in 1..n |-> (seed * 101 + i * 37) % 256]

\* the images a caller builds: width * height * 3 bytes of pixels
CallerImages ==
    { [width |-> U32(w), height |-> U32(h), pixels |-> Pattern(seed, w * h * 3)] :
        w \in 1..MaxWidth, h \in 1..MaxHeight, seed \in 0..MaxSeed }

AbsInt(v) == IF v < 0 THEN -v ELSE v

\* stored row i of a hand-made BMP: w BGR triples, every byte different, then
\* non-zero padding up to the 4-byte boundary
HandRow(w, i) ==
    [j \in 1..(((w * 3 + 3) \div 4) * 4) |->
        IF j <= w * 3 THEN w * 3 * i + j ELSE 170]

RECURSIVE HandRows(_, _, _)
HandRows(w, n, i) == IF i >= n THEN <<>> ELSE HandRow(w, i) \o HandRows(w, n, i + 1)

\* a hand-made BMP: headers with the given fields, a gap up to the declared
\* offset, the rows, and the last `cut` bytes missing
HandHeaders(sig, bpp, comp, w, h, off) ==
    sig \o U32(0) \o <<0, 0>> \o <<0, 0>> \o U32(off)
    \o U32(InfoHeaderSize) \o S32(w) \o S32(h)
    \o ToLimbs(1, 2) \o ToLimbs(bpp, 2) \o U32(comp)
    \o U32(0) \o U32(0) \o U32(0) \o U32(0) \o U32(0)

HandBmp(sig, bpp, comp, w, h, off, cut) ==
    LET headers == HandHeaders(sig, bpp, comp, w, h, off)
        gap == [j \in 1..(off - Len(headers)) |-> 238]
        all == headers \o gap \o (IF w > 0 THEN HandRows(w, AbsInt(h), 0) ELSE <<>>)
    IN  SubSeq(all, 1, Len(all) - cut)

\* files whose headers pass every check, whole or with the last byte missing
\* or with an extra byte at the end, bottom-up and top-down, with and without
\* a gap before the pixel data
AcceptableFiles ==
    { HandBmp(BM, 24, 0, w, h, off, cut) :
        w \in 1..(MaxHeight + 1), h \in ((-MaxHeight)..MaxHeight) \ {0},
        off \in {54, 57}, cut \in {0, 1} }

\* files with any combination of a wrong signature, depth, compression and
\* dimensions
RejectableFiles ==
    { HandBmp(sig, bpp, comp, w, h, 54, 0) :
        sig \in {BM, <<66, 66>>}, bpp \in {24, 8}, comp \in {0, 1},
        w \in {-1, 0, 1}, h \in {-1, 0, 1} }

\* files that end inside a header
TruncatedFiles ==
    { SubSeq(HandBmp(sig, bpp, 0, 1, 1, 54, 0), 1, n) :
        sig \in {BM, <<66, 66>>}, bpp \in {24, 8}, n \in {0, 1, 13, 14, 53} }

HandFiles == AcceptableFiles \cup RejectableFiles \cup TruncatedFiles

NoHeap == [pixels |-> "none", img |-> "none"]
NoRes ==
    [op |-> "none", path |-> Null, args |-> <<>>, fault |-> "none", ret |-> "none",
     rsrc |-> Rsrc(0, 0, 0, 0, 0, 0, 0, 0), oob |-> FALSE,
     pixels_size |-> NoSize, row_size |-> NoSize]

Snapshot ==
    [disk |-> disk, out_image |-> out_image, out_file |-> out_file,
     out_size |-> out_size, out_dup |-> out_dup, caller_heap |-> caller_heap]

\* the record of a call: res.fault is the injected failure when it changed
\* what the call did (clean is the same call with no failure injected)
Called(op, path, fault, r, clean) ==
    [op |-> op, path |-> path, args |-> <<>>,
     fault |-> IF r = clean THEN "none" ELSE fault,
     ret |-> r.ret, rsrc |-> r.rsrc, oob |-> r.oob,
     pixels_size |-> r.pixels_size, row_size |-> r.row_size]

-----------------------------------------------------------------------------
(* The calls *)

\* what a build can do once openf_load_bmp has written or read outside an
\* allocation: stop with a fault, or run on to either return of the loop
\* (with a pixel buffer whose content nothing determines)
UndefinedLoad(r) ==
    { r,
      [r EXCEPT !.ret = OPENF_ERR_READ_FAILED, !.rsrc = LoadExitShortRow.rsrc],
      [r EXCEPT !.ret = OPENF_OK, !.rsrc = LoadExitOk.rsrc, !.stored = TRUE,
                !.value = [r.value EXCEPT !.pixels = <<>>]] }

\* err = openf_load_bmp(path, &out_image), the caller's pointer being NULL
LoadBmp(paths) ==
    /\ out_image = NullImage
    /\ \E path \in paths \cup {Null}, has_out \in BOOLEAN :
         \E clean \in {openf_load_bmp(path, has_out, disk, "none")} :
           \E fault \in LoadFaults :
             \E r \in {IF fault = "none" THEN clean
                        ELSE openf_load_bmp(path, has_out, disk, fault)} :
               \E o \in (IF r.oob THEN UndefinedLoad(r) ELSE {r}) :
                 /\ out_image' = IF o.stored THEN o.value ELSE out_image
                 /\ caller_heap' = IF o.ret = OPENF_OK
                                     THEN [pixels |-> "live", img |-> "live"]
                                     ELSE caller_heap
                 /\ res' = Called("openf_load_bmp", path, fault, o, clean)
    /\ pre' = Snapshot
    /\ UNCHANGED <<disk, image, out_file, out_size, out_dup, saved>>

\* err = openf_save_bmp(path, img), img being the caller's image, an image
\* whose pixels are NULL, or NULL
SaveBmp ==
    /\ \E path \in {BmpPath, Null},
          img \in {image, NullImage, [width |-> U32(1), height |-> U32(1)]} :
         \E clean \in {openf_save_bmp(path, img, "none")} :
           \E fault \in SaveFaults :
             \E r \in {IF fault = "none" THEN clean
                        ELSE openf_save_bmp(path, img, fault)} :
               /\ disk' = IF r.value = NoFile THEN disk
                          ELSE [disk EXCEPT ![path] = r.value]
               /\ saved' = IF r.ret = OPENF_OK THEN img
                           ELSE IF r.value = NoFile THEN saved
                           ELSE NullImage
               /\ res' = Called("openf_save_bmp", path, fault, r, clean)
    /\ pre' = Snapshot
    /\ UNCHANGED <<image, out_image, out_file, out_size, out_dup, caller_heap>>

\* openf_free_image(&out_image) or openf_free_image(NULL)
FreeImage ==
    /\ \E has_arg \in BOOLEAN :
         \E r \in {openf_free_image(has_arg, out_image, caller_heap)} :
             /\ out_image' = r.ptr
             /\ caller_heap' = r.heap
             /\ res' = [NoRes EXCEPT !.op = "openf_free_image", !.ret = "void",
                                     !.args = <<has_arg>>]
    /\ pre' = Snapshot
    /\ UNCHANGED <<disk, image, out_file, out_size, out_dup, saved>>

-----------------------------------------------------------------------------
(* The codec: a caller with an image to save, or a BMP file someone made *)

InitCommon ==
    /\ out_image = NullImage
    /\ out_file = Unset
    /\ out_size = Unset
    /\ out_dup = Unset
    /\ caller_heap = NoHeap
    /\ saved = NullImage
    /\ res = NoRes
    /\ pre = [disk |-> [p \in Paths |-> NoFile], out_image |-> NullImage,
              out_file |-> Unset, out_size |-> Unset, out_dup |-> Unset,
              caller_heap |-> NoHeap]

Init ==
    /\ InitCommon
    /\ \/ /\ image \in CallerImages
          /\ disk = [p \in Paths |-> NoFile]
       \/ /\ image = NullImage
          /\ \E f \in HandFiles : disk = [p \in Paths |-> IF p = BmpPath THEN f ELSE NoFile]

Next ==
    \/ LoadBmp({BmpPath})
    \/ SaveBmp
    \/ FreeImage

Spec == Init /\ [][Next]_vars

-----------------------------------------------------------------------------
(* Headers with dimensions near the limits of 32-bit arithmetic *)

\* headers that pass every check, followed by n bytes of pixel data
HostileFiles ==
    { HandHeaders(BM, 24, 0, w, h, 54) \o [j \in 1..n |-> j] :
        w \in {1, 2, 3, 65536, 1431655765, 1431655766, 2147483647},
        h \in {1, -1, 2, 32768, 65536, -65536, 2147483647, -2147483647},
        n \in {0, 4, 8} }

InitArith ==
    /\ InitCommon
    /\ image = NullImage
    /\ \E f \in HostileFiles : disk = [p \in Paths |-> IF p = BmpPath THEN f ELSE NoFile]

NextArith ==
    \/ LoadBmp({BmpPath})
    \/ FreeImage

SpecArith == InitArith /\ [][NextArith]_vars

-----------------------------------------------------------------------------
(* The file helpers: one call on a small file system *)

\* a whole 1 x 1 BMP
TinyBmp == HandBmp(BM, 24, 0, 1, 1, 54, 0)

\* the return of a call into res
CalledFile(op, path, args, fault, r, clean) ==
    [Called(op, path, fault, r, clean) EXCEPT !.args = args]

\* no call was made yet: every run of this specification is one call
Fresh == res.op = "none"

\* err = openf_read(path, &out_file)
ReadFile ==
    /\ Fresh
    /\ \E path \in Paths \cup {Null}, has_out \in BOOLEAN :
         \E clean \in {openf_read(path, has_out, disk, "none")} :
           \E fault \in ReadFaults :
             \E r \in {openf_read(path, has_out, disk, fault)} :
               /\ out_file' = IF r.stored THEN Holding(r.value) ELSE out_file
               /\ res' = CalledFile("openf_read", path, <<>>, fault, r, clean)
    /\ pre' = Snapshot
    /\ UNCHANGED <<disk, image, out_image, out_size, out_dup, caller_heap, saved>>

\* err = openf_get_size(path, &out_size)
GetSize ==
    /\ Fresh
    /\ \E path \in Paths \cup {Null}, has_out \in BOOLEAN :
         \E clean \in {openf_get_size(path, has_out, disk, "none")} :
           \E fault \in SizeFaults :
             \E r \in {openf_get_size(path, has_out, disk, fault)} :
               /\ out_size' = IF r.stored THEN Holding(r.value) ELSE out_size
               /\ res' = CalledFile("openf_get_size", path, <<>>, fault, r, clean)
    /\ pre' = Snapshot
    /\ UNCHANGED <<disk, image, out_image, out_file, out_dup, caller_heap, saved>>

\* err = openf_strdup(src, &out_dup)
Strdup ==
    /\ Fresh
    /\ \E src \in {Null, "", "openf"}, has_out \in BOOLEAN :
         \E clean \in {openf_strdup(src, has_out, "none")} :
           \E fault \in DupFaults :
             \E r \in {openf_strdup(src, has_out, fault)} :
               /\ out_dup' = IF r.stored THEN Holding(r.value) ELSE out_dup
               /\ res' = CalledFile("openf_strdup", Null, <<src>>, fault, r, clean)
    /\ pre' = Snapshot
    /\ UNCHANGED <<disk, image, out_image, out_file, out_size, caller_heap, saved>>

\* err = openf_merge_files(out, a, b)
MergeCall ==
    /\ Fresh
    /\ \E args \in (Paths \X Paths \X Paths)
                   \cup {<<Null, "a", "b">>, <<"out", Null, "b">>, <<"out", "a", Null>>} :
         \E clean \in {openf_merge_files(args[1], args[2], args[3], disk, "none", 0,
                                         <<"clear", "clear">>)} :
           \E fault \in MergeFaults, flushed \in 0..2,
              ferr \in FerrorAfterClose \X FerrorAfterClose :
             \E r \in {openf_merge_files(args[1], args[2], args[3], disk, fault,
                                         flushed, ferr)} :
               /\ disk' = IF r.value = NoFile THEN disk
                          ELSE [disk EXCEPT ![args[1]] = r.value]
               /\ res' = CalledFile("openf_merge_files", args[1],
                                    <<args[2], args[3]>>, fault, r, clean)
    /\ pre' = Snapshot
    /\ UNCHANGED <<image, out_image, out_file, out_size, out_dup, caller_heap, saved>>

InitFile ==
    /\ InitCommon
    /\ image = NullImage
    /\ \E fa \in {NoFile, <<1>>, <<2, 3>>}, fb \in {NoFile, <<>>, <<4>>, TinyBmp},
          fo \in {NoFile, <<9>>} :
         disk = [p \in Paths |-> IF p = "a" THEN fa ELSE IF p = "b" THEN fb ELSE fo]

NextFile ==
    \/ ReadFile
    \/ GetSize
    \/ Strdup
    \/ MergeCall
    \/ LoadBmp(Paths)

SpecFile == InitFile /\ [][NextFile]_vars

-----------------------------------------------------------------------------
(* Readings of a file's bytes, for the properties *)

\* the number a two-byte field holds
Nat16(l) == l[1] + 256 * l[2]

\* the number a signed four-byte field holds (|value| < 2^24)
SignedOf(l) == IF IsNegL(l) THEN -NatOf(NegL(l)) ELSE NatOf(l)

\* the stored row length for a width: ceil(w * 3 / 4) * 4
Stride(w) == ((w * 3 + 3) \div 4) * 4

LoadReturned == res.op = "openf_load_bmp"
SaveReturned == res.op = "openf_save_bmp"
FreeReturned == res.op = "openf_free_image"

\* the file the last call named
TheFile == disk[res.path]

-----------------------------------------------------------------------------
(* C1 *)

\* C1: an image saved with openf_save_bmp (OPENF_OK) and loaded back from
\* that file with openf_load_bmp loads with OPENF_OK and comes back with the
\* same width, the same height and the same pixel bytes.
C1_RoundTrip ==
    (LoadReturned /\ saved # NullImage /\ res.fault = "none"
       /\ res.ret # OPENF_ERR_NULL_ARG)
    => /\ res.ret = OPENF_OK
       /\ out_image = saved

C1_Witness ==
    /\ LoadReturned /\ res.ret = OPENF_OK
    /\ saved # NullImage /\ out_image = saved
    /\ saved.width = U32(MaxWidth) /\ saved.height = U32(MaxHeight)

-----------------------------------------------------------------------------
(* C2 *)

\* C2: after a successful load of a file with width w, stored height H and
\* declared offset off, stored row i is the bytes from off + i * stride on; it
\* is canonical row i when H < 0 and row |H| - 1 - i when H > 0; canonical
\* pixel x of the row is (R, G, B) = (stored[3x+2], stored[3x+1], stored[3x]);
\* the buffer has exactly w * |H| * 3 bytes, so no padding byte is in it.
C2_DecoderMapping ==
    (LoadReturned /\ res.ret = OPENF_OK) =>
        LET f == TheFile
            w == NatOf(biWidth(f))
            H == SignedOf(biHeight(f))
            n == AbsInt(H)
            off == NatOf(bfOffBits(f))
        IN  /\ out_image.width = U32(w)
            /\ out_image.height = U32(n)
            /\ Len(out_image.pixels) = w * n * 3
            /\ \A i \in 0..(n - 1), x \in 0..(w - 1), c \in 0..2 :
                 out_image.pixels[((IF H < 0 THEN i ELSE n - 1 - i) * w + x) * 3 + c + 1]
                   = f[off + i * Stride(w) + 3 * x + (2 - c) + 1]

C2_Witness ==
    /\ LoadReturned /\ res.ret = OPENF_OK
    /\ NatOf(bfOffBits(TheFile)) = 57
    /\ SignedOf(biHeight(TheFile)) = -MaxHeight
    /\ NatOf(biWidth(TheFile)) = 3
    /\ out_image.pixels[1] = TheFile[57 + 3]

-----------------------------------------------------------------------------
(* C3 *)

\* the file C3 describes for an image of w x h pixels
ExpectedBmp(w, h, pixels) ==
    <<66, 77>> \o ToLimbs(54 + Stride(w) * h, 4) \o <<0, 0, 0, 0>> \o ToLimbs(54, 4)
    \o ToLimbs(40, 4) \o ToLimbs(w, 4) \o ToLimbs(h, 4)
    \o ToLimbs(1, 2) \o ToLimbs(24, 2) \o ToLimbs(0, 4)
    \o ToLimbs(Stride(w) * h, 4)
    \o ToLimbs(0, 4) \o ToLimbs(0, 4) \o ToLimbs(0, 4) \o ToLimbs(0, 4)
    \o [j \in 1..(Stride(w) * h) |->
          LET y == (j - 1) \div Stride(w)
              k == (j - 1) % Stride(w)
          IN  IF k < 3 * w
                THEN pixels[((h - 1 - y) * w + (k \div 3)) * 3 + (2 - (k % 3)) + 1]
                ELSE 0]

\* C3: a successful openf_save_bmp leaves exactly 54 + stride * height bytes
\* (stride 4 for width 1, 12 for width 4, 16 for width 5): "BM", the total
\* size, offset 54, info size 40, the width, the positive height, planes 1, 24
\* bits, compression 0, image size stride * height, then the rows, output row
\* y holding canonical row height - 1 - y as BGR triples and zero padding.
C3_EncoderLayout ==
    (SaveReturned /\ res.ret = OPENF_OK) =>
        LET w == NatOf(saved.width)
            h == NatOf(saved.height)
        IN  /\ TheFile = ExpectedBmp(w, h, saved.pixels)
            /\ Len(TheFile) = 54 + Stride(w) * h
            /\ (w = 1 => Len(TheFile) = 54 + 4 * h)
            /\ (w = 4 => Len(TheFile) = 54 + 12 * h)
            /\ (w = 5 => Len(TheFile) = 54 + 16 * h)

C3_Witness ==
    /\ SaveReturned /\ res.ret = OPENF_OK
    /\ saved.width = U32(5) /\ saved.height = U32(MaxHeight)
    /\ Len(TheFile) = 54 + 16 * MaxHeight
    /\ TheFile[54 + 16] = 0

-----------------------------------------------------------------------------
(* C4 *)

\* the error C4 gives for a file with both headers complete
ExpectedRejection(f) ==
    LET w == SignedOf(biWidth(f))
        H == SignedOf(biHeight(f))
        off == NatOf(bfOffBits(f))
        avail == IF off <= Len(f) THEN Len(f) - off ELSE 0
    IN  IF bfType(f) # <<66, 77>> THEN OPENF_ERR_INVALID_FORMAT
        ELSE IF Nat16(biBitCount(f)) # 24 \/ NatOf(biCompression(f)) # 0
          THEN OPENF_ERR_UNSUPPORTED
        ELSE IF w <= 0 \/ H = 0 THEN OPENF_ERR_INVALID_FORMAT
        ELSE IF avail < Stride(w) * AbsInt(H) THEN OPENF_ERR_READ_FAILED
        ELSE OPENF_OK

\* C4: on a file with both headers complete (and no I/O or allocation
\* failure), openf_load_bmp returns the error of the first failing check in
\* the order signature, depth/compression, dimensions, pixel data, and stores
\* no image.
C4_FirstFailingCheck ==
    (LoadReturned /\ res.fault = "none" /\ res.rsrc.fopen = 1
       /\ Len(TheFile) >= 54)
    => /\ res.ret = ExpectedRejection(TheFile)
       /\ (res.ret # OPENF_OK => out_image = NullImage)

C4_Witness ==
    /\ LoadReturned /\ res.fault = "none" /\ res.rsrc.fopen = 1
    /\ Len(TheFile) >= 54
    /\ bfType(TheFile) = <<66, 77>>
    /\ Nat16(biBitCount(TheFile)) = 8
    /\ SignedOf(biWidth(TheFile)) = 0
    /\ res.ret = OPENF_ERR_UNSUPPORTED

-----------------------------------------------------------------------------
(* C5 *)

\* C5 as stated: on a file of fewer than 14 bytes openf_load_bmp fails with
\* InvalidFormat, as for a wrong signature.
C5_ShortHeaderIsInvalidFormat ==
    (LoadReturned /\ res.rsrc.fopen = 1 /\ Len(TheFile) < 14)
    => res.ret = OPENF_ERR_INVALID_FORMAT

\* C5 as amended: on a file of fewer than 14 bytes openf_load_bmp fails with
\* ReadFailed (not the InvalidFormat of a wrong signature) and stores no image.
C5_ShortHeaderIsReadFailed ==
    (LoadReturned /\ res.rsrc.fopen = 1 /\ Len(TheFile) < 14)
    => /\ res.ret = OPENF_ERR_READ_FAILED
       /\ out_image = NullImage

C5_Witness ==
    /\ LoadReturned /\ res.rsrc.fopen = 1 /\ res.fault = "none"
    /\ TheFile = <<>>
    /\ res.ret = OPENF_ERR_READ_FAILED

-----------------------------------------------------------------------------
(* C6 *)

\* C6: canonical row 0 is the bottom row: loading a positive-height BMP puts
\* the row stored first (the bottom row) at canonical row 0, and saving emits
\* canonical row 0 as the first stored row.
C6_RowZeroIsBottom ==
    /\ (LoadReturned /\ res.ret = OPENF_OK /\ SignedOf(biHeight(TheFile)) > 0)
       => \A x \in 0..(NatOf(biWidth(TheFile)) - 1), c \in 0..2 :
            out_image.pixels[3 * x + c + 1]
              = TheFile[NatOf(bfOffBits(TheFile)) + 3 * x + (2 - c) + 1]
    /\ (SaveReturned /\ res.ret = OPENF_OK)
       => \A x \in 0..(NatOf(saved.width) - 1), c \in 0..2 :
            TheFile[54 + 3 * x + c + 1] = saved.pixels[3 * x + (2 - c) + 1]

-----------------------------------------------------------------------------
(* C7 *)

\* C7: when openf_load_bmp or openf_save_bmp returns, the stream it opened
\* has been closed once and every buffer it allocated freed once, except the
\* pixel buffer and image struct a successful load hands over; these
\* openf_free_image frees once, setting the pointer to NULL, and a second
\* openf_free_image frees nothing.
C7_ResourceRelease ==
    /\ (LoadReturned \/ SaveReturned) =>
         /\ res.rsrc.fopen <= 1
         /\ res.rsrc.fclose = res.rsrc.fopen
         /\ res.rsrc.free.row_data = res.rsrc.malloc.row_data
         /\ IF LoadReturned /\ res.ret = OPENF_OK
              THEN /\ res.rsrc.malloc.pixels = 1 /\ res.rsrc.free.pixels = 0
                   /\ res.rsrc.malloc.img = 1 /\ res.rsrc.free.img = 0
                   /\ out_image # NullImage
                   /\ caller_heap = [pixels |-> "live", img |-> "live"]
              ELSE /\ res.rsrc.free.pixels = res.rsrc.malloc.pixels
                   /\ res.rsrc.free.img = res.rsrc.malloc.img
                   /\ out_image = pre.out_image
                   /\ caller_heap = pre.caller_heap
    /\ FreeReturned =>
         IF res.args = <<TRUE>> /\ pre.out_image # NullImage
           THEN /\ pre.caller_heap = [pixels |-> "live", img |-> "live"]
                /\ caller_heap = [pixels |-> "freed", img |-> "freed"]
                /\ out_image = NullImage
           ELSE /\ caller_heap = pre.caller_heap
                /\ out_image = pre.out_image
    /\ (out_image # NullImage) <=> (caller_heap.img = "live")

C7_Witness ==
    /\ FreeReturned /\ res.args = <<TRUE>>
    /\ pre.out_image = NullImage
    /\ pre.caller_heap = [pixels |-> "freed", img |-> "freed"]
    /\ caller_heap = [pixels |-> "freed", img |-> "freed"]

-----------------------------------------------------------------------------
(* C8 *)

\* the output parameter of the last call, now and before the call
OutputNow ==
    CASE res.op = "openf_read" -> out_file
      [] res.op = "openf_get_size" -> out_size
      [] res.op = "openf_strdup" -> out_dup
      [] res.op = "openf_load_bmp" -> out_image

OutputBefore ==
    CASE res.op = "openf_read" -> pre.out_file
      [] res.op = "openf_get_size" -> pre.out_size
      [] res.op = "openf_strdup" -> pre.out_dup
      [] res.op = "openf_load_bmp" -> pre.out_image

\* C8: openf_read, openf_get_size, openf_strdup and openf_load_bmp never
\* report a partial success: a call either returns OPENF_OK with its output
\* set, or returns an error with its output exactly as it was before the call.
C8_NoPartialSuccess ==
    res.op \in {"openf_read", "openf_get_size", "openf_strdup", "openf_load_bmp"} =>
      IF res.ret = OPENF_OK
        THEN OutputNow \notin {Unset, NullImage}
        ELSE OutputNow = OutputBefore

-----------------------------------------------------------------------------
(* C9 *)

\* C9: whenever openf_merge_files(out, a, b) returns OPENF_OK, out holds the
\* bytes a held before the call followed by the bytes b held before the call,
\* also when out names the same file as a or as b.
C9_MergeIsConcatenation ==
    (res.op = "openf_merge_files" /\ res.ret = OPENF_OK) =>
      disk[res.path] = pre.disk[res.args[1]] \o pre.disk[res.args[2]]

-----------------------------------------------------------------------------
(* C10 *)

\* C10: for every header openf_load_bmp accepts, under 32-bit unsigned
\* arithmetic, the pixel buffer it allocates has exactly
\* width * |height| * 3 bytes, the row buffer exactly
\* ceil(width * 3 / 4) * 4 bytes, and every index the row loop reads or
\* writes lies inside its buffer.
C10_ExactSizesInBounds ==
    (LoadReturned /\ res.rsrc.malloc.pixels = 1) =>
      LET width == Widen(biWidth(TheFile), 8)
          height == Widen(LoadHeight(biHeight(TheFile)), 8)
          three == ToLimbs(3, 8)
      IN  /\ Widen(res.pixels_size, 8) = MulL(MulL(width, height), three)
          /\ res.rsrc.malloc.row_data = 1 =>
               Widen(res.row_size, 8) = Div4Mul4(AddL(MulL(width, three), three))
          /\ ~res.oob

=============================================================================
